---- MODULE Spec2Model ----
(***************************************************************************)
(* Proteinking: the food cache (api/services.py, api/views.py) and the     *)
(* intake ledger (api/models.py).                                          *)
(*                                                                         *)
(* Python strings that the code slices, title-cases or matches are         *)
(* sequences of one-character strings.  Floats are the integers they hold: *)
(* the amounts and densities used below make (density * grams) / 100 exact.*)
(***************************************************************************)
EXTENDS Integers, Sequences, FiniteSets, TLC

VARIABLES
    foodItems,      \* table FoodItem: a set of rows
    nextFoodId,     \* FoodItem primary-key sequence
    entries,        \* table FoodEntry: a set of rows
    nextEntryId,    \* FoodEntry primary-key sequence
    dailyIntakes,   \* table DailyIntake: day -> [total_protein, total_calories]
    last,           \* the request that completed last, and what it returned
    pc,             \* per concurrent request: the statement it is at
    loc,            \* per concurrent request: its local variables
    failedSaves,    \* ids of the entries whose FoodEntry.save raised
    userProfile     \* the user's UserProfile: none (<<>>) or one row

vars == <<foodItems, nextFoodId, entries, nextEntryId, dailyIntakes,
          last, pc, loc, failedSaves, userProfile>>

(***************************************************************************)
(* Bounds of the model.                                                    *)
(***************************************************************************)
\* FoodEntry rows ever inserted.
MaxEntries == 2
\* Records in one payload of the external source.
MaxFoods == 1

(***************************************************************************)
(* Strings.                                                                *)
(***************************************************************************)
Take(s, n) == SubSeq(s, 1, IF Len(s) < n THEN Len(s) ELSE n)

\* The characters of the model's strings, in code-point order.
Alphabet ==
    <<" ", "A", "B", "C", "G", "K", "L", "M", "a", "b", "c", "g", "k", "l", "m">>

NumUpper == (Len(Alphabet) - 1) \div 2

CharCode(c) == CHOOSE i \in 1..Len(Alphabet) : Alphabet[i] = c

IsUpperChar(c) == CharCode(c) \in 2..(1 + NumUpper)

IsLowerChar(c) == CharCode(c) \in (2 + NumUpper)..(1 + 2 * NumUpper)

IsCased(c) == IsUpperChar(c) \/ IsLowerChar(c)

LowerChar(c) == IF IsUpperChar(c) THEN Alphabet[CharCode(c) + NumUpper] ELSE c

UpperChar(c) == IF IsLowerChar(c) THEN Alphabet[CharCode(c) - NumUpper] ELSE c

\* str.lower()
Lower(s) == [i \in 1..Len(s) |-> LowerChar(s[i])]

\* str.title(): a cased character is upper-cased after an uncased one (or at
\* the start) and lower-cased after a cased one.
Title(s) ==
    [i \in 1..Len(s) |->
        IF i = 1 \/ ~IsCased(s[i - 1]) THEN UpperChar(s[i]) ELSE LowerChar(s[i])]

\* str.strip() over the blank " "
RECURSIVE LStrip(_)
LStrip(s) == IF s # <<>> /\ Head(s) = " " THEN LStrip(Tail(s)) ELSE s

RECURSIVE RStrip(_)
RStrip(s) ==
    IF s # <<>> /\ s[Len(s)] = " " THEN RStrip(SubSeq(s, 1, Len(s) - 1)) ELSE s

Strip(s) == RStrip(LStrip(s))

\* sub in s
Contains(s, sub) ==
    \E i \in 0..(Len(s) - Len(sub)) : SubSeq(s, i + 1, i + Len(sub)) = sub

\* the name__icontains lookup
IContains(name, query) == Contains(Lower(name), Lower(query))

\* str(n) of a non-negative integer: its decimal digits
Digit(d) == <<"0", "1", "2", "3", "4", "5", "6", "7", "8", "9">>[d + 1]

RECURSIVE Str(_)
Str(n) == IF n < 10 THEN <<Digit(n)>> ELSE Str(n \div 10) \o <<Digit(n % 10)>>

\* str.upper()
Upper(s) == [i \in 1..Len(s) |-> UpperChar(s[i])]

\* s < t in Python's string order
RECURSIVE StrLess(_, _)
StrLess(s, t) ==
    IF t = <<>> THEN FALSE
    ELSE IF s = <<>> THEN TRUE
    ELSE IF Head(s) # Head(t) THEN CharCode(Head(s)) < CharCode(Head(t))
    ELSE StrLess(Tail(s), Tail(t))

\* dict.get(key, default)
Get(d, key, default) == IF key \in DOMAIN d THEN d[key] ELSE default

(***************************************************************************)
(* FoodAPIService._format_food_data: the normalizer.                       *)
(***************************************************************************)
\* nutrient_mapping; <<>> when the id is not a key
NutrientMapping(id) ==
    CASE id = <<"1", "0", "0", "3">> -> "protein"
      [] id = <<"1", "0", "0", "8">> -> "calories"
      [] id = <<"1", "0", "0", "5">> -> "carbs"
      [] id = <<"1", "0", "0", "4">> -> "fat"
      [] id = <<"1", "0", "7", "9">> -> "fiber"
      [] OTHER -> ""

\* The unit test of the loop body: whether the nutrient's amount is stored.
UnitAccepted(unit, nutrient_name) ==
    \/ unit = <<"K", "C", "A", "L">> /\ nutrient_name = "calories"
    \/ unit = <<"G">>

\* The for loop over foodNutrients: the dict nutrients it leaves.
RECURSIVE ExtractNutrients(_, _)
ExtractNutrients(food_nutrients, nutrients) ==
    IF food_nutrients = <<>> THEN nutrients
    ELSE
        LET nutrient == Head(food_nutrients)
            info == Get(nutrient, "nutrient", [x \in {} |-> 0])
            nutrient_id == IF "id" \in DOMAIN info THEN Str(info["id"]) ELSE <<>>
            nutrient_name == NutrientMapping(nutrient_id)
            amount == Get(nutrient, "amount", 0)
            unit == Upper(Get(info, "unitName", <<>>))
            stored ==
                IF nutrient_name # "" /\ UnitAccepted(unit, nutrient_name)
                THEN [n \in DOMAIN nutrients \cup {nutrient_name} |->
                        IF n = nutrient_name THEN amount ELSE nutrients[n]]
                ELSE nutrients
        IN  ExtractNutrients(Tail(food_nutrients), stored)

\* Truncation to the model's max_length.
MaxNameLen == 200

\* The normalized record, as a sequence of none (None) or one record.
FormatFoodData(food_data) ==
    LET fdc_id == IF "fdcId" \in DOMAIN food_data THEN Str(food_data["fdcId"]) ELSE <<>>
        name == Title(Get(food_data, "description", <<>>))
        brand_owner == Get(food_data, "brandOwner", <<>>)
        nutrients ==
            ExtractNutrients(Get(food_data, "foodNutrients", <<>>), [x \in {} |-> 0])
    IN  IF fdc_id = <<>> \/ name = <<>> THEN <<>>
        ELSE << [fdc_id |-> fdc_id,
                 name |-> Take(name, MaxNameLen),
                 brand_owner |-> Take(brand_owner, MaxNameLen),
                 protein_per_100g |-> Get(nutrients, "protein", 0),
                 calories_per_100g |-> Get(nutrients, "calories", 0),
                 carbs_per_100g |-> Get(nutrients, "carbs", 0),
                 fat_per_100g |-> Get(nutrients, "fat", 0),
                 fiber_per_100g |-> Get(nutrients, "fiber", 0)] >>

(***************************************************************************)
(* Raw records the external source may return.                             *)
(***************************************************************************)
Nutrient(id, unitName, amount) ==
    [nutrient |-> [id |-> id, unitName |-> unitName], amount |-> amount]

RawFoods ==
    { \* a well-formed record
      [fdcId |-> 1, description |-> <<"a", "b">>,
       foodNutrients |-> << Nutrient(1003, <<"G">>, 20),
                            Nutrient(1008, <<"K", "C", "A", "L">>, 100) >>],
      \* the same food corrected: another protein density, a brand, lower-case units
      [fdcId |-> 1, description |-> <<"a", "b">>, brandOwner |-> <<"C">>,
       foodNutrients |-> << Nutrient(1003, <<"g">>, 10),
                            Nutrient(1008, <<"k", "c", "a", "l">>, 100) >>],
      \* energy tagged in grams, protein tagged in kcal, fat tagged in mg
      [fdcId |-> 2, description |-> <<"b", " ", "a", "b">>,
       foodNutrients |-> << Nutrient(1008, <<"G">>, 50),
                            Nutrient(1003, <<"K", "C", "A", "L">>, 20),
                            Nutrient(1004, <<"M", "G">>, 30),
                            Nutrient(1005, <<"G">>, 10) >>],
      \* a negative amount, an amount left out, an unmapped nutrient
      [fdcId |-> 2, description |-> <<"b", " ", "a", "b">>,
       foodNutrients |-> << Nutrient(1003, <<"G">>, -10),
                            [nutrient |-> [id |-> 1079, unitName |-> <<"G">>]],
                            Nutrient(2000, <<"G">>, 40) >>],
      \* no external identifier
      [description |-> <<"a", "b">>,
       foodNutrients |-> << Nutrient(1003, <<"G">>, 20) >>],
      \* no description
      [fdcId |-> 1,
       foodNutrients |-> << Nutrient(1003, <<"G">>, 20) >>] }

(***************************************************************************)
(* Table FoodItem and FoodCacheService.get_or_create_food_item.            *)
(***************************************************************************)
\* FoodItem.objects.filter(fdc_id=...)
RowsWithFdcId(tbl, fdc_id) == {r \in tbl : r.fdc_id = fdc_id}

\* fdc_id without unique=True: no INSERT is refused.
NoUniqueViolation(tbl, fdc_id) == FALSE

\* unique=True on FoodItem.fdc_id: whether an INSERT of fdc_id is refused
UniqueViolation(tbl, fdc_id) == RowsWithFdcId(tbl, fdc_id) # {}

\* The row get_or_create inserts: fdc_id and the defaults.
NewFoodItem(id, food_data) ==
    [id |-> id,
     fdc_id |-> food_data.fdc_id,
     name |-> food_data.name,
     brand_owner |-> food_data.brand_owner,
     protein_per_100g |-> food_data.protein_per_100g,
     calories_per_100g |-> food_data.calories_per_100g,
     carbs_per_100g |-> food_data.carbs_per_100g,
     fat_per_100g |-> food_data.fat_per_100g,
     fiber_per_100g |-> food_data.fiber_per_100g]

\* The diff with "is not" for "!=": every field counts as changed.
ChangedFieldsByIdentity(food_item, food_data) ==
    {field \in DOMAIN food_data : field # "fdc_id"}

\* The fields the loop over food_data.items() finds different.
ChangedFields(food_item, food_data) ==
    {field \in DOMAIN food_data :
        field # "fdc_id" /\ food_item[field] # food_data[field]}

\* The setattr calls overwriting the nutrient densities only.
WithNutrientFields(food_item, food_data) ==
    [field \in DOMAIN food_item |->
        IF field \in ChangedFields(food_item, food_data) \ {"name", "brand_owner"}
        THEN food_data[field] ELSE food_item[field]]

\* food_item after the setattr calls.
WithFields(food_item, food_data) ==
    [field \in DOMAIN food_item |->
        IF field \in ChangedFields(food_item, food_data)
        THEN food_data[field] ELSE food_item[field]]

\* food_item.save(): UPDATE of the row with the instance's primary key.
SaveFoodItem(tbl, food_item) ==
    {r \in tbl : r.id # food_item.id} \cup {food_item}

\* get_or_create_food_item run alone on table tbl: the table it leaves, what
\* it returns, and whether it wrote.
GetOrCreateFoodItem(tbl, next_id, food_data) ==
    LET found == RowsWithFdcId(tbl, food_data.fdc_id)
    IN  IF found = {}
        THEN LET food_item == NewFoodItem(next_id, food_data)
             IN  [tbl |-> tbl \cup {food_item}, next_id |-> next_id + 1,
                  food_item |-> food_item, created |-> TRUE, wrote |-> TRUE]
        ELSE LET old == CHOOSE r \in found : TRUE
                 updated == ChangedFields(old, food_data) # {}
                 food_item == WithFields(old, food_data)
             IN  [tbl |-> IF updated THEN SaveFoodItem(tbl, food_item) ELSE tbl,
                  next_id |-> next_id,
                  food_item |-> food_item, created |-> FALSE, wrote |-> updated]

(***************************************************************************)
(* FoodAPIService.search_foods and FoodSearchView.get_queryset.            *)
(***************************************************************************)
\* What the HTTP call can do: fail, answer with a payload that is not the
\* expected JSON object, or answer with a list of raw records.
RECURSIVE Payloads(_)
Payloads(n) ==
    IF n = 0 THEN {<<>>}
    ELSE Payloads(n - 1) \cup
         {Append(p, f) : p \in {q \in Payloads(n - 1) : Len(q) = n - 1}, f \in RawFoods}

Outcomes ==
    {[kind |-> "unreachable", foods |-> <<>>], [kind |-> "malformed", foods |-> <<>>]}
    \cup {[kind |-> "ok", foods |-> p] : p \in Payloads(MaxFoods)}

\* The loop of search_foods: the records _format_food_data did not drop.
RECURSIVE FormatAll(_)
FormatAll(foods) ==
    IF foods = <<>> THEN <<>>
    ELSE FormatFoodData(Head(foods)) \o FormatAll(Tail(foods))

\* search_foods without its except clauses.
SearchFoodsUncaught(query, outcome) ==
    IF Len(Strip(query)) < 2 THEN [raised |-> FALSE, foods |-> <<>>]
    ELSE IF outcome.kind # "ok" THEN [raised |-> TRUE, foods |-> <<>>]
    ELSE [raised |-> FALSE, foods |-> FormatAll(outcome.foods)]

\* search_foods: what it returns and whether an exception leaves it. Both
\* except clauses return [], so none does.
SearchFoods(query, outcome) ==
    IF Len(Strip(query)) < 2 THEN [raised |-> FALSE, foods |-> <<>>]
    ELSE IF outcome.kind # "ok" THEN [raised |-> FALSE, foods |-> <<>>]
    ELSE [raised |-> FALSE, foods |-> FormatAll(outcome.foods)]

\* The caching loop of get_queryset.
RECURSIVE CacheAll(_, _)
CacheAll(api_results, st) ==
    IF api_results = <<>> THEN st
    ELSE LET r == GetOrCreateFoodItem(st.tbl, st.next_id, Head(api_results))
         IN  CacheAll(Tail(api_results),
                      [tbl |-> r.tbl, next_id |-> r.next_id,
                       wrote |-> st.wrote \/ r.wrote])

\* Meta.ordering = ['name'] (rows of one name in primary-key order)
RowBefore(a, b) ==
    \/ StrLess(a.name, b.name)
    \/ a.name = b.name /\ a.id < b.id

RECURSIVE OrderByName(_)
OrderByName(rows) ==
    IF rows = {} THEN <<>>
    ELSE LET first == CHOOSE a \in rows : \A b \in rows \ {a} : RowBefore(a, b)
         IN  <<first>> \o OrderByName(rows \ {first})

\* FoodItem.objects.filter(name__icontains=query)[:limit]
FilterByName(tbl, query, limit) ==
    Take(OrderByName({r \in tbl : IContains(r.name, query)}), limit)

MinQueryLen == 2
LocalLimit == 10
LocalThreshold == 5
ResultLimit == 20

Queries == { <<"a">>, <<"A", "B">>, <<" ", "a">> }

NoRequest ==
    [op |-> "none", arg |-> <<>>, outcome |-> "", result |-> <<>>,
     created |-> FALSE, wrote |-> FALSE, error |-> FALSE]

\* GET /foods/search?q=query, the external source behaving as outcome when
\* called. An exception out of search_foods would leave get_queryset.
GetQueryset(query, outcome) ==
    LET local_results == FilterByName(foodItems, query, LocalLimit)
        consulted == Len(query) >= MinQueryLen /\ Len(local_results) < LocalThreshold
        api == IF consulted THEN SearchFoods(query, outcome)
               ELSE [raised |-> FALSE, foods |-> <<>>]
        cached == CacheAll(IF api.raised THEN <<>> ELSE api.foods,
                           [tbl |-> foodItems, next_id |-> nextFoodId, wrote |-> FALSE])
    IN  /\ foodItems' = cached.tbl
        /\ nextFoodId' = cached.next_id
        /\ last' = [op |-> "search", arg |-> query,
                    outcome |-> IF consulted THEN outcome.kind ELSE "not called",
                    result |-> IF Len(query) < MinQueryLen \/ api.raised THEN <<>>
                               ELSE FilterByName(cached.tbl, query, ResultLimit),
                    created |-> FALSE, wrote |-> cached.wrote, error |-> api.raised]
        /\ UNCHANGED <<entries, nextEntryId, dailyIntakes, pc, loc, failedSaves, userProfile>>

\* FoodAPIService.get_food_details: the normalized form of one fetched record.
GetFoodDetails(food_data) ==
    /\ last' = [op |-> "details", arg |-> food_data, outcome |-> "ok",
                result |-> FormatFoodData(food_data),
                created |-> FALSE, wrote |-> FALSE, error |-> FALSE]
    /\ UNCHANGED <<foodItems, nextFoodId, entries, nextEntryId, dailyIntakes,
                   pc, loc, failedSaves, userProfile>>

\* One call of get_or_create_food_item with a normalized record.
Upsert(food_data) ==
    LET r == GetOrCreateFoodItem(foodItems, nextFoodId, food_data)
    IN  /\ foodItems' = r.tbl
        /\ nextFoodId' = r.next_id
        /\ last' = [op |-> "upsert", arg |-> food_data, outcome |-> "ok",
                    result |-> <<r.food_item>>,
                    created |-> r.created, wrote |-> r.wrote, error |-> FALSE]
        /\ UNCHANGED <<entries, nextEntryId, dailyIntakes, pc, loc, failedSaves, userProfile>>

NormalizedRecords == {FormatFoodData(f)[1] : f \in {g \in RawFoods : FormatFoodData(g) # <<>>}}

(***************************************************************************)
(* Tables FoodEntry and DailyIntake; FoodEntry.save and the inherited      *)
(* Model.delete.                                                           *)
(***************************************************************************)
Days == {"d1", "d2"}

\* amount_grams a user may log
Amounts == {50, 150}

\* The division by 100 left out.
ConsumedPerGram(per_100g, amount_grams) == per_100g * amount_grams

\* (density * amount_grams) / 100
Consumed(per_100g, amount_grams) == (per_100g * amount_grams) \div 100

\* sum(entry.<field> for entry in rows)
RECURSIVE SumOf(_, _)
SumOf(rows, field) ==
    IF rows = {} THEN 0
    ELSE LET entry == CHOOSE e \in rows : TRUE
         IN  entry[field] + SumOf(rows \ {entry}, field)

\* daily_intake.entries.all()
EntriesOf(tbl, day) == {e \in tbl : e.daily_intake = day}

\* The row FoodEntry.save writes first.
NewFoodEntry(id, food_item, day, amount_grams) ==
    [id |-> id, food_item |-> food_item.id, daily_intake |-> day,
     amount_grams |-> amount_grams,
     protein_consumed |-> Consumed(food_item.protein_per_100g, amount_grams),
     calories_consumed |-> Consumed(food_item.calories_per_100g, amount_grams)]

\* The totals FoodEntry.save assigns to its daily_intake.
Totals(tbl, day) ==
    [total_protein |-> SumOf(EntriesOf(tbl, day), "protein_consumed"),
     total_calories |-> SumOf(EntriesOf(tbl, day), "calories_consumed")]

\* FoodEntry(...).save() of a new entry, run alone.
LogEntry(food_item, day, amount_grams) ==
    /\ nextEntryId <= MaxEntries
    /\ food_item \in foodItems
    /\ LET entry == NewFoodEntry(nextEntryId, food_item, day, amount_grams)
           saved == entries \cup {entry}
       IN  /\ entries' = saved
           /\ nextEntryId' = nextEntryId + 1
           /\ dailyIntakes' = [dailyIntakes EXCEPT ![day] = Totals(saved, day)]
           /\ last' = [op |-> "log", arg |-> amount_grams, outcome |-> "ok",
                       result |-> <<entry>>,
                       created |-> TRUE, wrote |-> TRUE, error |-> FALSE]
    /\ UNCHANGED <<foodItems, nextFoodId, pc, loc, failedSaves, userProfile>>

\* entry.delete(): FoodEntry does not override Model.delete, and nothing
\* listens for the deletion.
RemoveEntry(entry) ==
    /\ entry \in entries
    /\ entries' = entries \ {entry}
    /\ last' = [op |-> "remove", arg |-> entry.id, outcome |-> "ok",
                result |-> <<entry>>,
                created |-> FALSE, wrote |-> TRUE, error |-> FALSE]
    /\ UNCHANGED <<foodItems, nextFoodId, nextEntryId, dailyIntakes, pc, loc, failedSaves, userProfile>>

(***************************************************************************)
(* Requests served one at a time.                                          *)
(***************************************************************************)
Procs == {1, 2}

Idle == [op |-> "idle"]

Init ==
    /\ foodItems = {}
    /\ nextFoodId = 1
    /\ entries = {}
    /\ nextEntryId = 1
    /\ dailyIntakes = [d \in Days |-> [total_protein |-> 0, total_calories |-> 0]]
    /\ last = NoRequest
    /\ pc = [p \in Procs |-> "idle"]
    /\ loc = [p \in Procs |-> Idle]
    /\ failedSaves = {}
    /\ userProfile = <<>>

\* The food cache: searches, fetches and upserts.
Next ==
    \/ \E query \in Queries, outcome \in Outcomes : GetQueryset(query, outcome)
    \/ \E food_data \in RawFoods : GetFoodDetails(food_data)
    \/ \E food_data \in NormalizedRecords : Upsert(food_data)

Spec == Init /\ [][Next]_vars

\* The records of the food the ledger's entries refer to.
LedgerRecords == {r \in NormalizedRecords : r.fdc_id = Str(1)}

\* The intake ledger: entries logged and removed while the cache changes.
NextLedger ==
    \/ \E food_data \in LedgerRecords : Upsert(food_data)
    \/ \E food_item \in foodItems, day \in Days, amount_grams \in Amounts :
          LogEntry(food_item, day, amount_grams)
    \/ \E entry \in entries : RemoveEntry(entry)

SpecLedger == Init /\ [][NextLedger]_vars

(***************************************************************************)
(* Requests served concurrently.  No code of the repository opens a        *)
(* transaction or takes a lock, so every statement commits on its own and  *)
(* the statements of two requests interleave.                              *)
(***************************************************************************)
\* get_or_create: the first SELECT by fdc_id.
UpsertGet(p, food_data) ==
    /\ pc[p] = "idle"
    /\ LET found == RowsWithFdcId(foodItems, food_data.fdc_id)
       IN  IF found = {}
           THEN /\ pc' = [pc EXCEPT ![p] = "create"]
                /\ loc' = [loc EXCEPT ![p] =
                              [op |-> "upsert", food_data |-> food_data,
                               conflict |-> FALSE]]
           ELSE /\ pc' = [pc EXCEPT ![p] = "update"]
                /\ loc' = [loc EXCEPT ![p] =
                              [op |-> "upsert", food_data |-> food_data,
                               conflict |-> FALSE,
                               food_item |-> CHOOSE r \in found : TRUE]]
    /\ UNCHANGED <<foodItems, nextFoodId, entries, nextEntryId, dailyIntakes,
                   last, failedSaves, userProfile>>

\* get_or_create: the INSERT. A refused INSERT raises IntegrityError, which
\* get_or_create catches to SELECT again; an accepted one returns created=True.
UpsertCreate(p) ==
    /\ pc[p] = "create"
    /\ IF UniqueViolation(foodItems, loc[p].food_data.fdc_id)
       THEN /\ pc' = [pc EXCEPT ![p] = "get_again"]
            /\ loc' = [loc EXCEPT ![p].conflict = TRUE]
            /\ UNCHANGED <<foodItems, nextFoodId>>
       ELSE /\ foodItems' = foodItems \cup {NewFoodItem(nextFoodId, loc[p].food_data)}
            /\ nextFoodId' = nextFoodId + 1
            /\ pc' = [pc EXCEPT ![p] = "idle"]
            /\ loc' = [loc EXCEPT ![p] = Idle]
    /\ UNCHANGED <<entries, nextEntryId, dailyIntakes, last, failedSaves, userProfile>>

\* get_or_create: the SELECT after IntegrityError; the error is raised again
\* when the row is still not there.
UpsertGetAgain(p) ==
    /\ pc[p] = "get_again"
    /\ LET found == RowsWithFdcId(foodItems, loc[p].food_data.fdc_id)
       IN  IF Cardinality(found) = 1
           THEN /\ pc' = [pc EXCEPT ![p] = "update"]
                /\ loc' = [loc EXCEPT ![p] =
                              [op |-> "upsert", food_data |-> loc[p].food_data,
                               conflict |-> TRUE,
                               food_item |-> CHOOSE r \in found : TRUE]]
           ELSE /\ pc' = [pc EXCEPT ![p] = "raised"]
                /\ UNCHANGED loc
    /\ UNCHANGED <<foodItems, nextFoodId, entries, nextEntryId, dailyIntakes,
                   last, failedSaves, userProfile>>

\* "if not created": the field-by-field diff and food_item.save().
UpsertUpdate(p) ==
    /\ pc[p] = "update"
    /\ foodItems' =
          IF ChangedFields(loc[p].food_item, loc[p].food_data) # {}
          THEN SaveFoodItem(foodItems, WithFields(loc[p].food_item, loc[p].food_data))
          ELSE foodItems
    /\ pc' = [pc EXCEPT ![p] = "idle"]
    /\ loc' = [loc EXCEPT ![p] = Idle]
    /\ UNCHANGED <<nextFoodId, entries, nextEntryId, dailyIntakes, last, failedSaves, userProfile>>

\* FoodEntry.save: the consumed amounts and super().save(), the INSERT.
SaveInsert(p, food_item, day, amount_grams) ==
    /\ pc[p] = "idle"
    /\ nextEntryId <= MaxEntries
    /\ food_item \in foodItems
    /\ entries' = entries \cup {NewFoodEntry(nextEntryId, food_item, day, amount_grams)}
    /\ nextEntryId' = nextEntryId + 1
    /\ pc' = [pc EXCEPT ![p] = "sum_protein"]
    /\ loc' = [loc EXCEPT ![p] =
                  [op |-> "save", id |-> nextEntryId, daily_intake |-> day,
                   total_protein |-> 0, total_calories |-> 0]]
    /\ UNCHANGED <<foodItems, nextFoodId, dailyIntakes, last, failedSaves, userProfile>>

\* FoodEntry.save: the first query over daily_intake.entries.
SaveSumProtein(p) ==
    /\ pc[p] = "sum_protein"
    /\ loc' = [loc EXCEPT ![p].total_protein =
                  Totals(entries, loc[p].daily_intake).total_protein]
    /\ pc' = [pc EXCEPT ![p] = "sum_calories"]
    /\ UNCHANGED <<foodItems, nextFoodId, entries, nextEntryId, dailyIntakes,
                   last, failedSaves, userProfile>>

\* FoodEntry.save: the second query over daily_intake.entries.
SaveSumCalories(p) ==
    /\ pc[p] = "sum_calories"
    /\ loc' = [loc EXCEPT ![p].total_calories =
                  Totals(entries, loc[p].daily_intake).total_calories]
    /\ pc' = [pc EXCEPT ![p] = "save_intake"]
    /\ UNCHANGED <<foodItems, nextFoodId, entries, nextEntryId, dailyIntakes,
                   last, failedSaves, userProfile>>

\* FoodEntry.save: daily_intake.save(), the UPDATE of both totals.
SaveIntake(p) ==
    /\ pc[p] = "save_intake"
    /\ dailyIntakes' = [dailyIntakes EXCEPT ![loc[p].daily_intake] =
                           [total_protein |-> loc[p].total_protein,
                            total_calories |-> loc[p].total_calories]]
    /\ pc' = [pc EXCEPT ![p] = "idle"]
    /\ loc' = [loc EXCEPT ![p] = Idle]
    /\ UNCHANGED <<foodItems, nextFoodId, entries, nextEntryId, last, failedSaves, userProfile>>

\* FoodEntry.save: a query or the UPDATE fails after the INSERT. The exception
\* leaves save(); the INSERT has committed.
SaveFails(p) ==
    /\ pc[p] \in {"sum_protein", "sum_calories", "save_intake"}
    /\ failedSaves' = failedSaves \cup {loc[p].id}
    /\ pc' = [pc EXCEPT ![p] = "idle"]
    /\ loc' = [loc EXCEPT ![p] = Idle]
    /\ UNCHANGED <<foodItems, nextFoodId, entries, nextEntryId, dailyIntakes, last,
                   userProfile>>

NextConc ==
    \/ \E p \in Procs, food_data \in LedgerRecords : UpsertGet(p, food_data)
    \/ \E p \in Procs : UpsertCreate(p)
    \/ \E p \in Procs : UpsertGetAgain(p)
    \/ \E p \in Procs : UpsertUpdate(p)
    \/ \E p \in Procs, food_item \in foodItems, day \in Days, amount_grams \in Amounts :
          SaveInsert(p, food_item, day, amount_grams)
    \/ \E p \in Procs : SaveSumProtein(p)
    \/ \E p \in Procs : SaveSumCalories(p)
    \/ \E p \in Procs : SaveIntake(p)
    \/ \E p \in Procs : SaveFails(p)

SpecConc == Init /\ [][NextConc]_vars

(***************************************************************************)
(* UserProfile and DailyIntake.protein_percentage: the daily report.       *)
(***************************************************************************)
\* The validators of UserProfile.daily_protein_goal.
MinGoal == 10
MaxGoal == 500

\* Goals a user may submit.
GoalInputs == {-10, 0, 10, 50, 500, 501}

\* The user's profile saved through its form or serializer: a goal the
\* validators refuse leaves the profile as it was.
SaveUserProfile(daily_protein_goal) ==
    LET valid == MinGoal <= daily_protein_goal /\ daily_protein_goal <= MaxGoal
    IN  /\ userProfile' =
              IF valid THEN <<[daily_protein_goal |-> daily_protein_goal]>>
              ELSE userProfile
        /\ last' = [op |-> "profile", arg |-> daily_protein_goal, outcome |-> "ok",
                    result |-> <<>>,
                    created |-> valid /\ userProfile = <<>>, wrote |-> valid,
                    error |-> ~valid]
        /\ UNCHANGED <<foodItems, nextFoodId, entries, nextEntryId, dailyIntakes,
                       pc, loc, failedSaves>>

\* The property with a goal of 50 assumed for a user without a profile.
ProteinPercentageDefaultGoal(total_protein, profile) ==
    LET goal == IF profile # <<>> THEN profile[1].daily_protein_goal ELSE 50
    IN  IF goal > 0 THEN (total_protein * 100) \div goal ELSE 0

\* DailyIntake.protein_percentage. The totals and goals of the model make
\* total_protein / goal * 100 a whole number.
ProteinPercentage(total_protein, profile) ==
    IF profile # <<>>
    THEN LET goal == profile[1].daily_protein_goal
         IN  IF goal > 0 THEN (total_protein * 100) \div goal ELSE 0
    ELSE 0

\* A DailyIntake serialized: its protein_percentage is read.
GetDailyIntake(day) ==
    /\ last' = [op |-> "intake", arg |-> day, outcome |-> "ok",
                result |-> <<ProteinPercentage(dailyIntakes[day].total_protein,
                                               userProfile)>>,
                created |-> FALSE, wrote |-> FALSE, error |-> FALSE]
    /\ UNCHANGED <<foodItems, nextFoodId, entries, nextEntryId, dailyIntakes,
                   pc, loc, failedSaves, userProfile>>

\* The ledger with the user's profile and the daily report.
NextReport ==
    \/ NextLedger
    \/ \E daily_protein_goal \in GoalInputs : SaveUserProfile(daily_protein_goal)
    \/ \E day \in Days : GetDailyIntake(day)

SpecReport == Init /\ [][NextReport]_vars

(***************************************************************************)
(* Properties of the food cache, checked under Spec.                       *)
(***************************************************************************)
NonIdFields ==
    {"name", "brand_owner", "protein_per_100g", "calories_per_100g",
     "carbs_per_100g", "fat_per_100g", "fiber_per_100g"}

NutrientFields == NonIdFields \ {"name", "brand_owner"}

\* C2: an upsert that directly follows an upsert of the same normalized record
\* writes nothing, leaves the table as it was and leaves exactly one row with
\* that external identifier.
C2_UpsertTwiceWritesOnce ==
    [][(last.op = "upsert" /\ last'.op = "upsert" /\ last'.arg = last.arg) =>
          /\ ~last'.wrote
          /\ foodItems' = foodItems
          /\ Cardinality(RowsWithFdcId(foodItems', last'.arg.fdc_id)) = 1]_vars

\* C2 witness: an upsert has found its row and no field to change.
C2_Witness == last.op = "upsert" /\ ~last.created /\ ~last.wrote

\* C3: after an upsert exactly one row has the record's external identifier,
\* each of its non-identifier fields equals the record's, it is the item
\* returned, and created tells whether the identifier was unseen before.
C3_UpsertFullReplace ==
    [][last'.op = "upsert" =>
          LET food_data == last'.arg
              rows == RowsWithFdcId(foodItems', food_data.fdc_id)
          IN  /\ Cardinality(rows) = 1
              /\ \A r \in rows :
                    /\ \A field \in NonIdFields : r[field] = food_data[field]
                    /\ last'.result = <<r>>
              /\ last'.created = (RowsWithFdcId(foodItems, food_data.fdc_id) = {})
              /\ \A r \in foodItems' :
                    r.fdc_id # food_data.fdc_id => r \in foodItems]_vars

\* C3 witness: an upsert has overwritten the row of a known identifier.
C3_Witness == last.op = "upsert" /\ ~last.created /\ last.wrote

\* The rows of a sequence.
Range(seq) == {seq[i] : i \in 1..Len(seq)}

\* C8: a search that called the external source and found it unreachable or
\* its payload malformed raises nothing, writes nothing, and returns the rows
\* whose name contains the term, in name order, at most ResultLimit of them.
C8_SearchFallsBackToLocal ==
    /\ [](last.op = "search" /\ last.outcome \in {"unreachable", "malformed"} =>
            LET matches == {r \in foodItems : IContains(r.name, last.arg)}
                n == Len(last.result)
            IN  /\ ~last.error
                /\ ~last.wrote
                /\ Range(last.result) \subseteq matches
                /\ Cardinality(Range(last.result)) = n
                /\ n = IF Cardinality(matches) < ResultLimit
                       THEN Cardinality(matches) ELSE ResultLimit
                /\ \A i \in 1..(n - 1) :
                      ~StrLess(last.result[i + 1].name, last.result[i].name))
    /\ [][last'.op = "search" /\ last'.outcome \in {"unreachable", "malformed"} =>
            foodItems' = foodItems]_vars

\* C8 witness: a search whose source was unreachable has returned two local rows.
C8_Witness ==
    last.op = "search" /\ last.outcome = "unreachable" /\ Len(last.result) = 2

\* C9: every FoodItem row has its five nutrient densities >= 0.
C9_DensitiesNonNegative ==
    \A r \in foodItems : \A field \in NutrientFields : r[field] >= 0

\* The unit a nutrient is expected in, and the field that holds it.
ExpectedUnit(nutrient_name) ==
    IF nutrient_name = "calories" THEN <<"K", "C", "A", "L">> ELSE <<"G">>

FieldOf(nutrient_name) ==
    CASE nutrient_name = "protein" -> "protein_per_100g"
      [] nutrient_name = "calories" -> "calories_per_100g"
      [] nutrient_name = "carbs" -> "carbs_per_100g"
      [] nutrient_name = "fat" -> "fat_per_100g"
      [] nutrient_name = "fiber" -> "fiber_per_100g"

\* C10: the normalized form of a raw record has 0 for every nutrient the raw
\* record tags with another unit than the expected one.
C10_MismatchedUnitIsZero ==
    last.op = "details" /\ last.result # <<>> =>
        LET raw == last.arg.foodNutrients
        IN  \A i \in 1..Len(raw) :
                LET nutrient_name == NutrientMapping(Str(raw[i].nutrient.id))
                IN  (/\ nutrient_name # ""
                     /\ Upper(raw[i].nutrient.unitName) # ExpectedUnit(nutrient_name))
                    => last.result[1][FieldOf(nutrient_name)] = 0

(***************************************************************************)
(* Properties of the intake ledger, checked under SpecLedger.              *)
(***************************************************************************)
\* Whether a day's stored totals are the sums over its entries.
TotalsAgree(day) ==
    /\ dailyIntakes[day].total_protein =
          SumOf({e \in entries : e.daily_intake = day}, "protein_consumed")
    /\ dailyIntakes[day].total_calories =
          SumOf({e \in entries : e.daily_intake = day}, "calories_consumed")

\* C1: after every add and every remove of an entry, every day's totals are
\* the sums over the entries that exist for that day.
C1_TotalsEqualSums == \A day \in Days : TotalsAgree(day)

\* The FoodItem row an entry refers to.
FoodItemOf(entry) == CHOOSE r \in foodItems : r.id = entry.food_item

\* C7: the entry a logging request wrote holds the food's densities of that
\* moment times amount_grams / 100, and a step that changes a FoodItem row
\* changes no entry and no total.
C7_ConsumedFrozenAtLogTime ==
    /\ [](last.op = "log" =>
            LET entry == last.result[1]
            IN  /\ entry \in entries
                /\ entry.protein_consumed * 100 =
                      FoodItemOf(entry).protein_per_100g * entry.amount_grams
                /\ entry.calories_consumed * 100 =
                      FoodItemOf(entry).calories_per_100g * entry.amount_grams)
    /\ [][foodItems' # foodItems =>
            entries' = entries /\ dailyIntakes' = dailyIntakes]_vars

\* C7 witness: after an upsert changed a food's protein density, an entry of
\* that food still holds the amount computed from the former density.
C7_Witness ==
    /\ last.op = "upsert" /\ last.wrote /\ ~last.created
    /\ \E entry \in entries :
          entry.protein_consumed * 100 #
             FoodItemOf(entry).protein_per_100g * entry.amount_grams

(***************************************************************************)
(* Properties of concurrent requests, checked under SpecConc.              *)
(***************************************************************************)
\* C4: no two FoodItem rows share an external identifier, and no upsert ends
\* in the IntegrityError of its INSERT.
C4_ConcurrentUpsertOneRow ==
    /\ \A r1, r2 \in foodItems : r1.fdc_id = r2.fdc_id => r1 = r2
    /\ \A p \in Procs : pc[p] # "raised"

\* C4 witness: an upsert whose INSERT was refused, the other request having
\* inserted the identifier first, is on the update path with the row found.
C4_Witness ==
    \E p \in Procs :
        /\ pc[p] = "update" /\ loc[p].conflict
        /\ loc[p].food_item \in foodItems
        /\ loc[p].food_item.fdc_id = loc[p].food_data.fdc_id

\* C5: once the saves have completed, none of them having failed, every day's
\* totals are the sums over its entries.
C5_NoLostTotalsUpdate ==
    ((\A p \in Procs : pc[p] = "idle") /\ failedSaves = {}) =>
        \A day \in Days : TotalsAgree(day)

\* C6: no entry whose save failed is visible.
C6_FailedSaveLeavesNoEntry == \A e \in entries : e.id \notin failedSaves

====
